---- MODULE Spec2Model ----
(***************************************************************************)
(* State-machine model of task_app.py: class Task and class TaskManager    *)
(* (the storage/query layer).  One action per TaskManager method; a method *)
(* that raises keeps the assignments it made before the raise.             *)
(*                                                                         *)
(* The class bodies are complete in task_app.py, and three names the       *)
(* methods call are defined nowhere in them: TaskManager.get_next_id       *)
(* (called at line 49), Task.to_dict (line 45) and Task.from_dict          *)
(* (line 34).  Python raises AttributeError at each of these calls, and    *)
(* that is what the model does.  Task.__init__ (lines 9-13) sets no id.    *)
(***************************************************************************)
EXTENDS Integers, Sequences, FiniteSets, TLC

\* ---- bounds of the model -------------------------------------------------
\* largest task id held by a collection of InitTasks; a collection holds
\* at most one task per id, so it is also the longest collection
MaxId == 2
\* longest collection, and latest creation time, of InitRecent
MaxRecent == 4

\* ---- values --------------------------------------------------------------
\* Python's None, for due_date and for a procedure's return value
NoneVal == "None"
\* titles passed to add_task ("" is the empty title)
Titles == {"Buy milk", ""}
\* titles passed to edit_task
NewTitles == {"New title"}
\* due dates passed to add_task / edit_task
Dues == {NoneVal, "2025-01-01"}
\* the three recognized statuses (comment at line 12)
Statuses == {"pending", "done", "failed"}
\* statuses passed to update_task_status: any string is accepted by the
\* signature; "bogus" stands for a string outside the three
StatusArgs == Statuses \cup {"bogus"}
\* ids passed to the id-taking methods; MaxId + 1 is never held by a task
IdArgs == 1..(MaxId + 1)
\* counts passed to get_recent_tasks: 3 is the default (line 55) and the
\* value tasks_menu passes (line 149)
CountArgs == {0, 1, 3}
\* titles passed to get_task_by_name
NameArgs == {"milk", "BUY MILK"}

\* contents the backing file data/tasks.json may have when the program starts
FileTexts == {"", "not json", "[]", "{}", "7", "[{\"title\": \"a\"}]"}
\* what an interrupted write of text has put in the file: a strict prefix
StrictPrefixes(text) == IF text = "[]" THEN {"", "["} ELSE {""}
NoFile == [exists |-> FALSE, text |-> ""]
FileOf(text) == [exists |-> TRUE, text |-> text]

VARIABLES
  file,     \* the backing file DATA_FILE: [exists, text]
  mgr,      \* TRUE when a TaskManager object exists (its constructor returned)
  tasks,    \* TaskManager.tasks, a sequence of Task objects
  call,     \* the last method called and its arguments
  ret,      \* what that call returned ("None", "True", "False", "Task") or the exception it raised
  retTask,  \* the Task returned by get_task_by_id, as a sequence of 0 or 1 tasks;
            \* the list returned by the other queries
  warned,   \* TRUE when the last load_tasks printed its warning
  issued    \* the ids add_task has assigned so far, in call order

vars == <<file, mgr, tasks, call, ret, retTask, warned, issued>>

\* ---- class Task ----------------------------------------------------------
\* Task.__init__(title, due_date, status, created_at): sets four attributes
\* and no id; created_at 0 stands for None ("created_at or now")
Task(title, due_date, status, created_at, now) ==
  [has_id |-> FALSE, id |-> 0, title |-> title, due_date |-> due_date,
   status |-> status,
   created_at |-> IF created_at = 0 THEN now ELSE created_at]

\* a Task object that has been given an id attribute
WithId(t, id) == [t EXCEPT !.has_id = TRUE, !.id = id]

\* ---- json ----------------------------------------------------------------
\* json.load on the file's text: a parse error, or the parsed value's shape
\* (whether it can be iterated and how many elements the iteration yields)
json_load(text) ==
  CASE text = "[]" -> [err |-> FALSE, iterable |-> TRUE, n |-> 0]
    [] text = "{}" -> [err |-> FALSE, iterable |-> TRUE, n |-> 0]
    [] text = "7" -> [err |-> FALSE, iterable |-> FALSE, n |-> 0]
    [] text = "[{\"title\": \"a\"}]" -> [err |-> FALSE, iterable |-> TRUE, n |-> 1]
    [] OTHER -> [err |-> TRUE, iterable |-> FALSE, n |-> 0]

\* [task.to_dict() for task in ts] followed by json.dump(..., indent=2):
\* Task has no to_dict, so the comprehension raises on its first element;
\* the empty list is dumped as "[]"
json_dump(ts) ==
  IF Len(ts) > 0 THEN [raised |-> "AttributeError", text |-> ""]
  ELSE [raised |-> "", text |-> "[]"]

\* ---- class TaskManager ---------------------------------------------------
\* variant of load_tasks whose except clause names KeyError only
load_tasks_nocatch(f) ==
  IF f.exists
  THEN LET data == json_load(f.text) IN
       IF data.err
       THEN [tasks |-> <<>>, warned |-> FALSE, raised |-> "JSONDecodeError"]
       ELSE IF ~data.iterable
       THEN [tasks |-> <<>>, warned |-> FALSE, raised |-> "TypeError"]
       ELSE IF data.n > 0
       THEN [tasks |-> <<>>, warned |-> FALSE, raised |-> "AttributeError"]
       ELSE [tasks |-> <<>>, warned |-> FALSE, raised |-> ""]
  ELSE [tasks |-> <<>>, warned |-> FALSE, raised |-> ""]

\* load_tasks: result is the new collection, the warning flag and the
\* exception that escapes (if any)
load_tasks(f) ==
  IF f.exists
  THEN LET data == json_load(f.text) IN
       IF data.err
       THEN [tasks |-> <<>>, warned |-> TRUE, raised |-> ""]
       ELSE IF ~data.iterable
       THEN [tasks |-> <<>>, warned |-> FALSE, raised |-> "TypeError"]
       ELSE IF data.n > 0
       THEN [tasks |-> <<>>, warned |-> FALSE, raised |-> "AttributeError"]
       ELSE [tasks |-> <<>>, warned |-> FALSE, raised |-> ""]
  ELSE [tasks |-> <<>>, warned |-> FALSE, raised |-> ""]

\* save_tasks: open(DATA_FILE, 'w') truncates (or creates) the file, then
\* the list to dump is built, then it is written
save_tasks(ts, f) ==
  LET d == json_dump(ts) IN
  IF d.raised # ""
  THEN [file |-> FileOf(""), raised |-> d.raised]
  ELSE [file |-> FileOf(d.text), raised |-> ""]

\* get_task_by_id: index of the first task whose id is task_id, 0 for None;
\* reading task.id of a task without the attribute raises
RECURSIVE scan_by_id(_, _, _)
scan_by_id(ts, task_id, i) ==
  IF i > Len(ts) THEN [raised |-> "", idx |-> 0]
  ELSE IF ~ts[i].has_id THEN [raised |-> "AttributeError", idx |-> 0]
  ELSE IF ts[i].id = task_id THEN [raised |-> "", idx |-> i]
  ELSE scan_by_id(ts, task_id, i + 1)

get_task_by_id(ts, task_id) == scan_by_id(ts, task_id, 1)

\* str.lower() (str_lower) and the substring test "a in b", on the strings of the model
str_lower(s) ==
  CASE s = "Buy milk" -> "buy milk"
    [] s = "BUY MILK" -> "buy milk"
    [] s = "New title" -> "new title"
    [] OTHER -> s

contains(a, b) ==
  \/ a = b
  \/ a = ""
  \/ a = "milk" /\ b = "buy milk"

\* get_task_by_name: case-insensitive equality or containment
get_task_by_name(ts, title, exact_match) ==
  IF exact_match
  THEN SelectSeq(ts, LAMBDA t : str_lower(t.title) = str_lower(title))
  ELSE SelectSeq(ts, LAMBDA t : contains(str_lower(title), str_lower(t.title)))

\* sorted(ts, key=created_at, reverse=True): a stable sort, so tasks of
\* equal created_at keep their order; the next task goes behind every task
\* whose created_at is not smaller
InsertDesc(sorted, t) ==
  LET k == Cardinality({i \in 1..Len(sorted) : sorted[i].created_at >= t.created_at})
  IN SubSeq(sorted, 1, k) \o <<t>> \o SubSeq(sorted, k + 1, Len(sorted))

RECURSIVE sorted_desc(_)
sorted_desc(ts) ==
  IF ts = <<>> THEN <<>>
  ELSE InsertDesc(sorted_desc(SubSeq(ts, 1, Len(ts) - 1)), ts[Len(ts)])

\* the slice [:count] for count >= 0
Slice(s, count) == SubSeq(s, 1, IF count < Len(s) THEN count ELSE Len(s))

\* variant of get_recent_tasks that sorts ascending and reverses the result
get_recent_tasks_reversed(ts, count) ==
  LET RECURSIVE asc_reversed(_)
      asc_reversed(q) ==
        IF q = <<>> THEN <<>>
        ELSE LET rest == asc_reversed(SubSeq(q, 1, Len(q) - 1))
                 t == q[Len(q)]
                 k == Cardinality({i \in 1..Len(rest) : rest[i].created_at > t.created_at})
             IN SubSeq(rest, 1, k) \o <<t>> \o SubSeq(rest, k + 1, Len(rest))
  IN Slice(asc_reversed(ts), count)

get_recent_tasks(ts, count) == Slice(sorted_desc(ts), count)

\* get_task_history / get_pending_tasks: list comprehensions over self.tasks
get_task_history(ts) == SelectSeq(ts, LAMBDA t : t.status \in {"done", "failed"})

\* variant of get_pending_tasks that filters on status != "done"
get_pending_tasks_not_done(ts) == SelectSeq(ts, LAMBDA t : t.status # "done")

get_pending_tasks(ts) == SelectSeq(ts, LAMBDA t : t.status = "pending")

\* the result record of a mutating method
Outcome(ts, f, r, ids) == [tasks |-> ts, file |-> f, ret |-> r, issued |-> ids]

\* variant of add_task in which the id is len(self.tasks) + 1 and the task
\* is created with it and appended before save_tasks runs
add_task_len(ts, f, ids, title, due_date) ==
  IF Len(ts) > MaxId THEN Outcome(ts, f, "AttributeError", ids)
  ELSE LET task_id == Len(ts) + 1
           grown == Append(ts, WithId(Task(title, due_date, "pending", 0, 1), task_id))
           s == save_tasks(grown, f)
       IN Outcome(grown, s.file, IF s.raised # "" THEN s.raised ELSE NoneVal,
                  Append(ids, task_id))

\* add_task: self.get_next_id() is the first thing evaluated and the class
\* has no such attribute: nothing is created, appended, saved or printed
add_task(ts, f, ids, title, due_date) ==
  Outcome(ts, f, "AttributeError", ids)

\* list.remove(task): the found object itself is taken out
RemoveAt(ts, i) == SubSeq(ts, 1, i - 1) \o SubSeq(ts, i + 1, Len(ts))

\* what follows "self.save_tasks(); return True" at the end of a method
SaveAndReturnTrue(ts, f, ids) ==
  LET s == save_tasks(ts, f) IN
  Outcome(ts, s.file, IF s.raised # "" THEN s.raised ELSE "True", ids)

\* variant of update_task_status that sets the status of every task once
\* the id is found
update_task_status_all(ts, f, ids, task_id, status) ==
  LET g == get_task_by_id(ts, task_id) IN
  IF g.raised # "" THEN Outcome(ts, f, g.raised, ids)
  ELSE IF g.idx # 0
  THEN SaveAndReturnTrue([i \in 1..Len(ts) |-> [ts[i] EXCEPT !.status = status]], f, ids)
  ELSE Outcome(ts, f, "False", ids)

update_task_status(ts, f, ids, task_id, status) ==
  LET g == get_task_by_id(ts, task_id) IN
  IF g.raised # "" THEN Outcome(ts, f, g.raised, ids)
  ELSE IF g.idx # 0
  THEN SaveAndReturnTrue([ts EXCEPT ![g.idx].status = status], f, ids)
  ELSE Outcome(ts, f, "False", ids)

\* variant of edit_task that assigns new_due_date without the None test
edit_task_always_due(ts, f, ids, task_id, new_title, new_due_date) ==
  LET g == get_task_by_id(ts, task_id) IN
  IF g.raised # "" THEN Outcome(ts, f, g.raised, ids)
  ELSE IF g.idx # 0
  THEN SaveAndReturnTrue(
         [ts EXCEPT ![g.idx].title = new_title, ![g.idx].due_date = new_due_date],
         f, ids)
  ELSE Outcome(ts, f, "False", ids)

\* variant of edit_task that replaces the task by a new Task object of the
\* same id and status, created now (a time later than every created_at)
edit_task_recreates(ts, f, ids, task_id, new_title, new_due_date) ==
  LET g == get_task_by_id(ts, task_id) IN
  IF g.raised # "" THEN Outcome(ts, f, g.raised, ids)
  ELSE IF g.idx # 0
  THEN SaveAndReturnTrue(
         [ts EXCEPT ![g.idx] =
            WithId(Task(new_title,
                        IF new_due_date # NoneVal THEN new_due_date ELSE @.due_date,
                        @.status, 0, MaxId + MaxRecent + 1), @.id)],
         f, ids)
  ELSE Outcome(ts, f, "False", ids)

edit_task(ts, f, ids, task_id, new_title, new_due_date) ==
  LET g == get_task_by_id(ts, task_id) IN
  IF g.raised # "" THEN Outcome(ts, f, g.raised, ids)
  ELSE IF g.idx # 0
  THEN SaveAndReturnTrue(
         [ts EXCEPT ![g.idx].title = new_title,
                    ![g.idx].due_date = IF new_due_date # NoneVal
                                        THEN new_due_date ELSE @],
         f, ids)
  ELSE Outcome(ts, f, "False", ids)

\* variant of remove_task that returns True for a found task without
\* removing it
remove_task_keeps(ts, f, ids, task_id) ==
  LET g == get_task_by_id(ts, task_id) IN
  IF g.raised # "" THEN Outcome(ts, f, g.raised, ids)
  ELSE IF g.idx # 0 THEN Outcome(ts, f, "True", ids)
  ELSE Outcome(ts, f, "False", ids)

\* variant of remove_task that saves before it looks at the lookup's result
remove_task_saves_first(ts, f, ids, task_id) ==
  LET g == get_task_by_id(ts, task_id) IN
  IF g.raised # "" THEN Outcome(ts, f, g.raised, ids)
  ELSE IF g.idx # 0 THEN SaveAndReturnTrue(RemoveAt(ts, g.idx), f, ids)
  ELSE LET s == save_tasks(ts, f) IN
       Outcome(ts, s.file, IF s.raised # "" THEN s.raised ELSE "False", ids)

\* variant of remove_task that takes out the last task (self.tasks.pop())
remove_task_pop(ts, f, ids, task_id) ==
  LET g == get_task_by_id(ts, task_id) IN
  IF g.raised # "" THEN Outcome(ts, f, g.raised, ids)
  ELSE IF g.idx # 0
  THEN SaveAndReturnTrue(SubSeq(ts, 1, Len(ts) - 1), f, ids)
  ELSE Outcome(ts, f, "False", ids)

remove_task(ts, f, ids, task_id) ==
  LET g == get_task_by_id(ts, task_id) IN
  IF g.raised # "" THEN Outcome(ts, f, g.raised, ids)
  ELSE IF g.idx # 0
  THEN SaveAndReturnTrue(RemoveAt(ts, g.idx), f, ids)
  ELSE Outcome(ts, f, "False", ids)

\* ---- calls ---------------------------------------------------------------
Call(op, id, title, due, status) ==
  [op |-> op, id |-> id, title |-> title, due |-> due, status |-> status,
   count |-> 0, exact |-> FALSE]

\* a query called with a count, or with a title and the exact_match flag
QueryCall(op, count, title, exact) ==
  [Call(op, 0, title, NoneVal, "") EXCEPT !.count = count, !.exact = exact]

NoCall == Call("", 0, "", NoneVal, "")

\* a mutating method has run with outcome o
Apply(c, o) ==
  /\ call' = c
  /\ tasks' = o.tasks
  /\ file' = o.file
  /\ ret' = o.ret
  /\ issued' = o.issued
  /\ retTask' = <<>>
  /\ UNCHANGED <<mgr, warned>>

\* TaskManager(): __init__ sets tasks = [] and calls load_tasks; when
\* load_tasks raises, no manager object comes into being
NewManager ==
  LET l == load_tasks(file) IN
  /\ call' = Call("TaskManager", 0, "", NoneVal, "")
  /\ tasks' = l.tasks
  /\ warned' = l.warned
  /\ mgr' = (l.raised = "")
  /\ ret' = IF l.raised = "" THEN NoneVal ELSE l.raised
  /\ retTask' = <<>>
  /\ UNCHANGED <<file, issued>>

do_save_tasks ==
  /\ mgr
  /\ LET s == save_tasks(tasks, file) IN
     /\ call' = Call("save_tasks", 0, "", NoneVal, "")
     /\ file' = s.file
     /\ ret' = IF s.raised = "" THEN NoneVal ELSE s.raised
     /\ retTask' = <<>>
     /\ UNCHANGED <<mgr, tasks, warned, issued>>

do_add_task ==
  /\ mgr
  /\ \E title \in Titles, due \in Dues :
       Apply(Call("add_task", 0, title, due, ""),
             add_task(tasks, file, issued, title, due))

do_get_task_by_id ==
  /\ mgr
  /\ \E id \in IdArgs :
       LET g == get_task_by_id(tasks, id) IN
       /\ call' = Call("get_task_by_id", id, "", NoneVal, "")
       /\ ret' = IF g.raised # "" THEN g.raised
                 ELSE IF g.idx = 0 THEN NoneVal ELSE "Task"
       /\ retTask' = IF g.raised = "" /\ g.idx # 0 THEN <<tasks[g.idx]>> ELSE <<>>
       /\ UNCHANGED <<file, mgr, tasks, warned, issued>>

\* a query has run and returned the list r
Answer(c, r) ==
  /\ call' = c
  /\ ret' = "list"
  /\ retTask' = r
  /\ UNCHANGED <<file, mgr, tasks, warned, issued>>

\* variant of get_recent_tasks that sorts self.tasks in place
do_get_recent_tasks_inplace ==
  /\ mgr
  /\ \E count \in CountArgs :
       /\ call' = QueryCall("get_recent_tasks", count, "", FALSE)
       /\ ret' = "list"
       /\ tasks' = sorted_desc(tasks)
       /\ retTask' = Slice(tasks', count)
       /\ UNCHANGED <<file, mgr, warned, issued>>

do_get_recent_tasks ==
  /\ mgr
  /\ \E count \in CountArgs :
       Answer(QueryCall("get_recent_tasks", count, "", FALSE),
              get_recent_tasks(tasks, count))

do_get_task_history ==
  /\ mgr
  /\ Answer(QueryCall("get_task_history", 0, "", FALSE), get_task_history(tasks))

do_get_pending_tasks ==
  /\ mgr
  /\ Answer(QueryCall("get_pending_tasks", 0, "", FALSE), get_pending_tasks(tasks))

do_get_task_by_name ==
  /\ mgr
  /\ \E title \in NameArgs, exact \in BOOLEAN :
       Answer(QueryCall("get_task_by_name", 0, title, exact),
              get_task_by_name(tasks, title, exact))

\* the process is killed inside save_tasks, after open(DATA_FILE, 'w') has
\* truncated the file and before json.dump has written all of the text; the
\* manager is gone, and tasks keeps the collection that was being saved
save_tasks_interrupted ==
  /\ mgr
  /\ LET d == json_dump(tasks) IN
     file' \in {FileOf(x) : x \in (IF d.raised # "" THEN {""} ELSE StrictPrefixes(d.text))}
  /\ call' = Call("save_tasks_interrupted", 0, "", NoneVal, "")
  /\ mgr' = FALSE
  /\ ret' = "killed"
  /\ retTask' = <<>>
  /\ UNCHANGED <<tasks, warned, issued>>

do_update_task_status ==
  /\ mgr
  /\ \E id \in IdArgs, status \in StatusArgs :
       Apply(Call("update_task_status", id, "", NoneVal, status),
             update_task_status(tasks, file, issued, id, status))

do_edit_task ==
  /\ mgr
  /\ \E id \in IdArgs, title \in NewTitles, due \in Dues :
       Apply(Call("edit_task", id, title, due, ""),
             edit_task(tasks, file, issued, id, title, due))

do_remove_task ==
  /\ mgr
  /\ \E id \in IdArgs :
       Apply(Call("remove_task", id, "", NoneVal, ""),
             remove_task(tasks, file, issued, id))

Next ==
  \/ NewManager
  \/ do_save_tasks
  \/ save_tasks_interrupted
  \/ do_add_task
  \/ do_get_recent_tasks
  \/ do_get_task_history
  \/ do_get_pending_tasks
  \/ do_get_task_by_id
  \/ do_get_task_by_name
  \/ do_update_task_status
  \/ do_edit_task
  \/ do_remove_task

\* ---- the program ----------------------------------------------------------
\* before TaskManager() is first called: the file is absent or has any of
\* the contents, and there is no manager
Init ==
  /\ file \in {NoFile} \cup {FileOf(x) : x \in FileTexts}
  /\ mgr = FALSE
  /\ tasks = <<>>
  /\ call = NoCall
  /\ ret = NoneVal
  /\ retTask = <<>>
  /\ warned = FALSE
  /\ issued = <<>>

Spec == Init /\ [][Next]_vars

\* ---- the methods on a collection that holds tasks --------------------------
\* TaskManager.tasks is a plain attribute.  The claims about an existing
\* task are about the methods applied to a collection that holds tasks, each
\* a Task object with an id attribute, the ids distinct and in creation
\* order; the empty collection of Spec is among them.  The tasks start with
\* a non-empty title and no due date, in any of the three statuses.
TaskObjects(id) ==
  {WithId(Task(title, NoneVal, status, id, id), id) :
     title \in Titles \ {""}, status \in Statuses}

\* the collections whose ids are among 1..n, in increasing order of id
RECURSIVE Collections(_)
Collections(n) ==
  IF n = 0 THEN {<<>>}
  ELSE LET lower == Collections(n - 1) IN
       lower \cup {Append(ts, t) : ts \in lower, t \in TaskObjects(n)}

InitTasks ==
  /\ file = FileOf("[]")
  /\ mgr = TRUE
  /\ tasks \in Collections(MaxId)
  /\ call = NoCall
  /\ ret = NoneVal
  /\ retTask = <<>>
  /\ warned = FALSE
  /\ issued = <<>>

SpecTasks == InitTasks /\ [][Next]_vars

\* ---- the queries on collections of any creation times ---------------------
\* The queries are functions of the collection.  Here the collection is up
\* to MaxRecent pending tasks, the id of each its position, with creation
\* times in any order and with ties, and only the queries are called.
RECURSIVE RecentCollections(_)
RecentCollections(n) ==
  IF n = 0 THEN {<<>>}
  ELSE LET shorter == RecentCollections(n - 1) IN
       shorter \cup
       {Append(ts, WithId(Task("Buy milk", NoneVal, "pending", at, at), n)) :
          ts \in {q \in shorter : Len(q) = n - 1}, at \in 1..MaxRecent}

InitRecent ==
  /\ file = FileOf("[]")
  /\ mgr = TRUE
  /\ tasks \in RecentCollections(MaxRecent)
  /\ call = NoCall
  /\ ret = NoneVal
  /\ retTask = <<>>
  /\ warned = FALSE
  /\ issued = <<>>

NextQueries ==
  \/ do_get_recent_tasks
  \/ do_get_task_history
  \/ do_get_pending_tasks
  \/ do_get_task_by_id
  \/ do_get_task_by_name

SpecRecent == InitRecent /\ [][NextQueries]_vars

\* ---- properties -----------------------------------------------------------
Range(seq) == {seq[i] : i \in 1..Len(seq)}

\* no task of ts has the id
Absent(ts, id) == \A i \in 1..Len(ts) : ~(ts[i].has_id /\ ts[i].id = id)

\* the largest id in ts, 0 when ts is empty
RECURSIVE MaxIdOf(_)
MaxIdOf(ts) ==
  IF ts = <<>> THEN 0
  ELSE LET m == MaxIdOf(Tail(ts)) IN IF Head(ts).id > m THEN Head(ts).id ELSE m

MutatingById == {"update_task_status", "edit_task", "remove_task"}

C2_IdsIncrease ==
  /\ call.op = "add_task" =>
       /\ Len(issued) > 0
       /\ Len(tasks) > 0
       /\ tasks[Len(tasks)].has_id
       /\ tasks[Len(tasks)].id = issued[Len(issued)]
  /\ \A i, j \in 1..Len(issued) : i < j => issued[i] < issued[j]

\* C3 (as claimed): after add_task, and after update_task_status, edit_task
\* or remove_task on an existing id, the backing file holds exactly the
\* serialization of the in-memory collection.
C3_FileIsSerialization ==
  (\/ call.op = "add_task" /\ call.title # ""
   \/ call.op \in MutatingById /\ ret # "False")
  => /\ json_dump(tasks).raised = ""
     /\ file = FileOf(json_dump(tasks).text)

C5_NextId ==
  [][call'.op = "add_task"
     => /\ Len(tasks') = Len(tasks) + 1
        /\ tasks'[Len(tasks')].has_id
        /\ tasks'[Len(tasks')].id = MaxIdOf(tasks) + 1]_vars

\* C6 (as claimed): add_task with a non-empty title appends exactly one
\* task at the end, with the given title and due date and status pending;
\* on the empty collection its id is 1.
C6_Appends ==
  [][(call'.op = "add_task" /\ call'.title # "")
     => /\ Len(tasks') = Len(tasks) + 1
        /\ SubSeq(tasks', 1, Len(tasks)) = tasks
        /\ LET t == tasks'[Len(tasks')] IN
           /\ t.title = call'.title
           /\ t.due_date = call'.due
           /\ t.status = "pending"
           /\ (tasks = <<>> => (t.has_id /\ t.id = 1))]_vars

\* C7: a task whose status is done or failed is in get_task_history() and
\* not in get_pending_tasks(); right after update_task_status(id, s) with s
\* done or failed on an existing task, that task has status s, is in the
\* history and is not pending.
C7_HistoryNotPending ==
  /\ \A t \in Range(tasks) :
       t.status \in {"done", "failed"}
       => (t \in Range(get_task_history(tasks))
           /\ t \notin Range(get_pending_tasks(tasks)))
  /\ (call.op = "update_task_status" /\ call.status \in {"done", "failed"})
     => \A t \in Range(tasks) :
          t.id = call.id
          => /\ t.status = call.status
             /\ t \in Range(get_task_history(tasks))
             /\ t \notin Range(get_pending_tasks(tasks))

\* update_task_status(id, "failed") has just acted on an existing task
C7_Witness ==
  /\ call.op = "update_task_status"
  /\ call.status = "failed"
  /\ \E t \in Range(tasks) : t.id = call.id /\ t.status = "failed"

\* C8: when remove_task(id) returns True the id is no longer found, and an
\* id that is not found stays not found through every call but add_task.
C8_RemovedNotFound ==
  [][\A id \in IdArgs :
       /\ (call'.op = "remove_task" /\ call'.id = id /\ ret' = "True")
          => get_task_by_id(tasks', id) = [raised |-> "", idx |-> 0]
       /\ (get_task_by_id(tasks, id) = [raised |-> "", idx |-> 0]
           /\ call'.op # "add_task")
          => get_task_by_id(tasks', id) = [raised |-> "", idx |-> 0]]_vars

\* remove_task has just returned True
C8_Witness == call.op = "remove_task" /\ ret = "True"

C10_NotFound ==
  [][(call'.op \in MutatingById \cup {"get_task_by_id"} /\ Absent(tasks, call'.id))
     => /\ ret' = (IF call'.op = "get_task_by_id" THEN NoneVal ELSE "False")
        /\ tasks' = tasks
        /\ file' = file]_vars

\* remove_task has just returned False on a collection that holds a task
C10_Witness == call.op = "remove_task" /\ ret = "False" /\ Len(tasks) >= 1

\* C11 (as claimed): constructing a manager over a backing file that exists
\* and is malformed (anything but a JSON list of task records; here anything
\* but "[]") does not raise, leaves the collection empty and prints the
\* warning.
C11_MalformedLoad ==
  (call.op = "TaskManager" /\ file.exists /\ file.text # "[]")
  => (ret = NoneVal /\ mgr /\ tasks = <<>> /\ warned)

\* C12: edit_task(id, new_title, new_due_date) on an existing task sets its
\* title to new_title, sets its due date to new_due_date when that is not
\* None and leaves the due date as it was when it is None.
C12_EditFields ==
  [][call'.op = "edit_task"
     => /\ Len(tasks') = Len(tasks)
        /\ \A i \in 1..Len(tasks) :
             tasks[i].id = call'.id
             => /\ tasks'[i].title = call'.title
                /\ tasks'[i].due_date = (IF call'.due # NoneVal THEN call'.due
                                         ELSE tasks[i].due_date)]_vars

\* edit_task with no due date has just acted on a task that has one
C12_Witness ==
  /\ call.op = "edit_task"
  /\ call.due = NoneVal
  /\ \E t \in Range(tasks) :
       t.id = call.id /\ t.title = call.title /\ t.due_date = "2025-01-01"

\* C13: get_recent_tasks(count), count >= 0, returns min(count, number of
\* tasks) tasks, the task at place k being the one with k - 1 tasks before it
\* in the order "later created_at first, equal created_at in collection
\* order"; for four tasks created at t1 < t2 < t3 < t4, count 3 returns those
\* of t4, t3, t2.
C13_Recent ==
  call.op = "get_recent_tasks"
  => LET n == Len(tasks)
         Before(i) == {j \in 1..n :
                         \/ tasks[j].created_at > tasks[i].created_at
                         \/ tasks[j].created_at = tasks[i].created_at /\ j < i}
     IN /\ Len(retTask) = (IF call.count < n THEN call.count ELSE n)
        /\ \A i \in 1..n :
             Cardinality(Before(i)) < Len(retTask)
             => retTask[Cardinality(Before(i)) + 1] = tasks[i]
        /\ (/\ n = 4
            /\ call.count = 3
            /\ \A i \in 1..3 : tasks[i].created_at < tasks[i + 1].created_at)
           => retTask = <<tasks[4], tasks[3], tasks[2]>>

\* get_recent_tasks(3) has answered on four tasks created at 1 < 2 < 3 < 4
C13_Witness ==
  /\ call.op = "get_recent_tasks"
  /\ call.count = 3
  /\ Len(tasks) = 4
  /\ \A i \in 1..4 : tasks[i].created_at = i
  /\ Len(retTask) = 3

\* C14 (as claimed): add_task with an empty title returns without raising
\* and leaves the collection and the backing file as they were.
C14_EmptyTitleNoOp ==
  [][(call'.op = "add_task" /\ call'.title = "")
     => (ret' = NoneVal /\ tasks' = tasks /\ file' = file)]_vars

QueryOps ==
  {"get_recent_tasks", "get_task_history", "get_pending_tasks",
   "get_task_by_id", "get_task_by_name"}

\* C15: a query leaves the collection (contents and order) and the backing
\* file as they were, and get_pending_tasks returns exactly the pending tasks
\* of that collection in collection order, so a repeated call returns the
\* same list.
C15_QueriesPure ==
  [][call'.op \in QueryOps
     => /\ tasks' = tasks
        /\ file' = file
        /\ call'.op = "get_pending_tasks"
           => /\ retTask' = SelectSeq(tasks, LAMBDA t : t.status = "pending")
              /\ (call.op = "get_pending_tasks" => retTask' = retTask)]_vars

\* get_pending_tasks has just returned two tasks
C15_Witness == call.op = "get_pending_tasks" /\ Len(retTask) = 2

C17_StatusOnlyByUpdate ==
  [][\A i \in 1..Len(tasks), j \in 1..Len(tasks') :
       (tasks[i].id = tasks'[j].id /\ tasks[i].status # tasks'[j].status)
       => (call'.op = "update_task_status" /\ call'.id = tasks[i].id)]_vars

\* update_task_status has just set the status of one of two tasks, and the
\* other has a different status
C17_Witness ==
  /\ call.op = "update_task_status"
  /\ Len(tasks) = 2
  /\ \E t, u \in Range(tasks) :
       t.id = call.id /\ t.status = call.status /\ u.id # t.id /\ u.status # t.status

C19_InterruptedSave ==
  [][/\ call'.op = "save_tasks_interrupted"
        => (file'.exists /\ file'.text \in {"", "["})
     /\ (call.op = "save_tasks_interrupted" /\ call'.op = "TaskManager")
        => (ret' = NoneVal /\ mgr' /\ tasks' \in {<<>>, tasks})]_vars

\* a manager has been constructed over the file an interrupted save left
\* with the first character of the serialization
C19_Witness ==
  call.op = "TaskManager" /\ file = FileOf("[") /\ mgr /\ warned

====
